---- MODULE Spec2Model ----
(***************************************************************************)
(* A model of kapitan/inputs/kadet.py: the builder object (BaseObj), the   *)
(* output normalizer (_to_dict), the module resolver                       *)
(* (_load_from_search_paths), the lazily cached Task inventory             *)
(* (KadetTask) and the compile orchestration (Kadet.compile_file).         *)
(*                                                                         *)
(* Python values are tagged records:                                       *)
(*   [t |-> "int", v |-> n]                a scalar                        *)
(*   [t |-> "none"]                        None                            *)
(*   [t |-> "list", sub, items]            a list; sub = TRUE: a subclass  *)
(*   [t |-> "dict", kind, m]               a mapping; kind "dict" is the   *)
(*                                         plain dict, kind "Dict" addict's*)
(*   [t |-> "obj", id]                     a reference to a BaseObj on the *)
(*                                         heap (a sequence of objects)    *)
(* A mapping's items are a function from keys to values: the iteration     *)
(* order of a dict is not kept, Python's == on dicts ignores it too.       *)
(***************************************************************************)
EXTENDS Integers, Sequences, FiniteSets, TLC

VARIABLES
    \* BaseObj heap and the last builder operation
    objs, last, nsets, nqueries,
    \* module resolver
    fs, search_paths, sys_modules, loaded,
    \* KadetTask instance
    cache, calls, tlast,
    \* Kadet.compile_file
    input_params, pending, meta_path, pc, cur, ret, written, ncalls

builderVars == <<objs, last, nsets, nqueries>>
resolverVars == <<fs, search_paths, sys_modules, loaded>>
taskVars == <<cache, calls, tlast>>
compileVars == <<input_params, pending, meta_path, pc, cur, ret, written, ncalls>>
vars == <<builderVars, resolverVars, taskVars, compileVars>>

----------------------------------------------------------------------------
(* Bounds *)

MaxObjs == 2
MaxSets == 1
MaxQueries == 1
MaxRoots == 2
MaxProviderCalls == 3
MaxArity == 2
MaxCompiles == 2

----------------------------------------------------------------------------
(* Python values *)

Int1 == [t |-> "int", v |-> 1]
Int2 == [t |-> "int", v |-> 2]
None == [t |-> "none"]
Ref(i) == [t |-> "obj", id |-> i]
List(sub, items) == [t |-> "list", sub |-> sub, items |-> items]
Map(kind, m) == [t |-> "dict", kind |-> kind, m |-> m]

NoItems == [k \in {} |-> None]
One(k, v) == [x \in {k} |-> v]

\* the root key component code assigns; hooks and files set "a" and "b"
SetKeys == {"b"}

----------------------------------------------------------------------------
(* addict.Dict, as BaseObj uses it *)

RECURSIVE DictHook(_)
\* Dict(value): every nested mapping becomes a Dict, lists keep their type
DictHook(v) ==
    IF v.t = "dict" THEN Map("Dict", [k \in DOMAIN v.m |-> DictHook(v.m[k])])
    ELSE IF v.t = "list"
         THEN List(v.sub, [n \in DOMAIN v.items |-> DictHook(v.items[n])])
    ELSE v

RECURSIVE AddictToDict(_)
\* Dict.to_dict(): a plain dict; nested Dicts (directly, or as the items of
\* a list) are converted, every other value is kept as it is
AddictToDict(m) ==
    Map("dict",
        [k \in DOMAIN m |->
            LET v == m[k] IN
            IF v.t = "dict" /\ v.kind = "Dict" THEN AddictToDict(v.m)
            ELSE IF v.t = "list"
                 THEN List(v.sub,
                        [n \in DOMAIN v.items |->
                            LET it == v.items[n] IN
                            IF it.t = "dict" /\ it.kind = "Dict"
                            THEN AddictToDict(it.m) ELSE it])
            ELSE v])

----------------------------------------------------------------------------
(* _to_dict: the result and the heap it leaves behind *)

RECURSIVE ToDict(_, _), ToDictRoot(_, _, _), ToDictItems(_, _), ToDictMap(_, _, _)

\* a normalizer that works on a copy of the root mapping
ToDictRootNoWrite(h, id, ks) ==
    IF ks = {} THEN h
    ELSE LET k == CHOOSE x \in ks : TRUE
             res == ToDict(h, h[id].root[k])
         IN ToDictRoot(res.h, id, ks \ {k})

\* for k, v in obj.root.items(): obj.root[k] = _to_dict(v)
ToDictRoot(h, id, ks) ==
    IF ks = {} THEN h
    ELSE LET k == CHOOSE x \in ks : TRUE
             res == ToDict(h, h[id].root[k])
             h2 == [res.h EXCEPT ![id].root[k] = res.r]
         IN ToDictRoot(h2, id, ks \ {k})

\* [_to_dict(item) for item in obj]
ToDictItems(h, items) ==
    IF items = <<>> THEN [h |-> h, r |-> <<>>]
    ELSE LET first == ToDict(h, Head(items))
             rest == ToDictItems(first.h, Tail(items))
         IN [h |-> rest.h, r |-> <<first.r>> \o rest.r]

\* {k: _to_dict(v) for k, v in obj.items()}
ToDictMap(h, m, ks) ==
    IF ks = {} THEN [h |-> h, r |-> NoItems]
    ELSE LET k == CHOOSE x \in ks : TRUE
             first == ToDict(h, m[k])
             rest == ToDictMap(first.h, m, ks \ {k})
         IN [h |-> rest.h,
             r |-> [x \in DOMAIN rest.r \cup {k} |->
                        IF x = k THEN first.r ELSE rest.r[x]]]

\* a normalizer without the list case
ToDictNoList(h, v) ==
    IF v.t = "obj"
    THEN LET h2 == ToDictRoot(h, v.id, DOMAIN h[v.id].root)
         IN [h |-> h2, r |-> AddictToDict(h2[v.id].root)]
    ELSE IF v.t = "dict"
    THEN LET res == ToDictMap(h, v.m, DOMAIN v.m)
         IN [h |-> res.h, r |-> Map("dict", res.r)]
    ELSE [h |-> h, r |-> v]

ToDict(h, v) ==
    IF v.t = "obj"
    THEN LET h2 == ToDictRoot(h, v.id, DOMAIN h[v.id].root)
         IN [h |-> h2, r |-> AddictToDict(h2[v.id].root)]
    ELSE IF v.t = "list"
    THEN LET res == ToDictItems(h, v.items)
         IN [h |-> res.h, r |-> List(FALSE, res.r)]
    ELSE IF v.t = "dict"
    THEN LET res == ToDictMap(h, v.m, DOMAIN v.m)
         IN [h |-> res.h, r |-> Map("dict", res.r)]
    ELSE [h |-> h, r |-> v]

----------------------------------------------------------------------------
(* BaseObj *)

Classes == {"BaseObj", "Named", "Filled"}

\* the keys a class's new() hook need()s
Needs(cls) == IF cls = "Named" THEN {"name"} ELSE {}

\* need(key): CompileError when key is not in self.kwargs
Need(key, kwargs) == IF key \in kwargs THEN "ok" ELSE "CompileError"

\* new(): the default does nothing, a subclass calls need() for its keys
New(cls, kwargs) ==
    IF \E key \in Needs(cls) : Need(key, kwargs) = "CompileError"
    THEN "CompileError" ELSE "ok"

\* body(): the default does nothing, a subclass fills self.root
Body(cls, root) ==
    IF cls = "BaseObj" THEN root
    ELSE [k \in DOMAIN root \cup {"a"} |-> IF k = "a" THEN Int1 ELSE root[k]]

\* __init__: root = Dict(), kwargs = Dict(kwargs), new(), body()
BaseObjInit(cls, kwargs) ==
    IF New(cls, kwargs) = "CompileError"
    THEN [outcome |-> "CompileError", hooks |-> <<"new">>, root |-> NoItems]
    ELSE [outcome |-> "ok", hooks |-> <<"new", "body">>,
          root |-> Body(cls, NoItems)]

\* an object on the heap: kwargs is read by need() during construction only
NewObj(root) == [root |-> root]

RECURSIVE HasObj(_), HasSubtype(_)
\* a BaseObj somewhere in a value
HasObj(v) ==
    IF v.t = "obj" THEN TRUE
    ELSE IF v.t = "list" THEN \E n \in DOMAIN v.items : HasObj(v.items[n])
    ELSE IF v.t = "dict" THEN \E k \in DOMAIN v.m : HasObj(v.m[k])
    ELSE FALSE

\* a list subclass or a dict subclass somewhere in a value
HasSubtype(v) ==
    IF v.t = "list" THEN v.sub \/ \E n \in DOMAIN v.items : HasSubtype(v.items[n])
    ELSE IF v.t = "dict"
    THEN v.kind # "dict" \/ \E k \in DOMAIN v.m : HasSubtype(v.m[k])
    ELSE FALSE

\* the last builder operation: what was called, on what, and what came of it
NoLast == [op |-> "none", id |-> 0, cls |-> "BaseObj", outcome |-> "ok",
           hooks |-> <<>>, arg |-> None, res |-> None, ext |-> "",
           exists |-> FALSE, hadObj |-> FALSE, hadSubtype |-> FALSE]

\* a from_dict that makes the instance without running __init__
FromDictBypass(cls, value) ==
    [outcome |-> "ok", hooks |-> <<>>, root |-> DictHook(value).m]

\* from_dict: bobj = cls(); bobj.root = Dict(dict_value)
FromDictResult(cls, value) ==
    LET init == BaseObjInit(cls, {}) IN
    IF init.outcome = "CompileError" THEN init
    ELSE [init EXCEPT !.root = DictHook(value).m]

Recognized == {".yaml", ".yml", ".json"}
Exts == Recognized \cup {".ini"}

\* what yaml.safe_load / json.load return for the file update_root reads
FileContent == One("b", Map("dict", One("a", Int2)))

\* update_root: open the file, then merge by extension or raise CompileError
UpdateRootResult(root, ext, exists) ==
    IF ~exists THEN [outcome |-> "FileNotFoundError", root |-> root]
    ELSE IF ext \in Recognized
    THEN LET copy == [k \in DOMAIN root \cup DOMAIN FileContent |->
                        IF k \in DOMAIN FileContent THEN FileContent[k]
                        ELSE root[k]]
         IN [outcome |-> "ok", root |-> DictHook(Map("dict", copy)).m]
    ELSE [outcome |-> "CompileError", root |-> root]

----------------------------------------------------------------------------
(* The builder machine: objects are constructed, filled, merged, normalized *)

\* a builder can hold the builders made after it: no reference cycles
Leaves(i) == {Int1} \cup {Ref(j) : j \in (i + 1)..Len(objs)}

\* the values component code may store under a key of object i's root
Vals(i) ==
    LET inner == Leaves(i) IN
         Leaves(i)
         \cup {List(s, <<x>>) : s \in BOOLEAN, x \in inner}
         \cup {Map(kd, One("a", x)) : kd \in {"dict", "Dict"}, x \in inner}

DictArgs ==
    {Map("dict", NoItems),
     Map("dict", One("b", Map("dict", One("a", List(TRUE, <<Map("dict", NoItems)>>)))))}

InitBuilder ==
    /\ objs = <<>>
    /\ last = NoLast
    /\ nsets = 0
    /\ nqueries = 0

\* cls(**kwargs)
Construct(cls, kwargs) ==
    /\ Len(objs) < MaxObjs
    /\ LET init == BaseObjInit(cls, kwargs) IN
       /\ objs' = IF init.outcome = "ok"
                  THEN Append(objs, NewObj(init.root)) ELSE objs
       /\ last' = [NoLast EXCEPT !.op = "init", !.cls = cls,
                                 !.id = Len(objs) + 1,
                                 !.outcome = init.outcome, !.hooks = init.hooks]
    /\ UNCHANGED <<nsets, nqueries>>
    /\ UNCHANGED <<resolverVars, taskVars, compileVars>>

\* cls.from_dict(value)
FromDict(cls, value) ==
    /\ Len(objs) < MaxObjs
    /\ LET made == FromDictResult(cls, value) IN
       /\ objs' = IF made.outcome = "ok"
                  THEN Append(objs, NewObj(made.root)) ELSE objs
       /\ last' = [NoLast EXCEPT !.op = "from_dict", !.cls = cls,
                                 !.id = Len(objs) + 1, !.arg = value,
                                 !.outcome = made.outcome, !.hooks = made.hooks]
    /\ UNCHANGED <<nsets, nqueries>>
    /\ UNCHANGED <<resolverVars, taskVars, compileVars>>

\* self.root[k] = v, in a body() hook or in component code
SetRoot(i, k, v) ==
    /\ nsets < MaxSets
    /\ nsets' = nsets + 1
    /\ UNCHANGED nqueries
    /\ UNCHANGED <<resolverVars, taskVars, compileVars>>
    /\ objs' = [objs EXCEPT ![i].root =
                    [x \in DOMAIN objs[i].root \cup {k} |->
                        IF x = k THEN v ELSE objs[i].root[x]]]
    /\ last' = [NoLast EXCEPT !.op = "set"]

\* obj.to_dict()
ToDictCall(i) ==
    LET res == ToDict(objs, Ref(i)) IN
    /\ nqueries < MaxQueries
    /\ nqueries' = nqueries + 1
    /\ UNCHANGED nsets
    /\ UNCHANGED <<resolverVars, taskVars, compileVars>>
    /\ objs' = res.h
    /\ last' = [NoLast EXCEPT !.op = "to_dict", !.id = i,
                              !.hadObj = HasObj(Map("Dict", objs[i].root)),
                              !.hadSubtype =
                                  \E k \in DOMAIN objs[i].root :
                                      HasSubtype(objs[i].root[k]),
                              !.res = res.r]

\* obj.update_root(path): path ends with ext, a file is there or not
UpdateRoot(i, ext, exists) ==
    LET res == UpdateRootResult(objs[i].root, ext, exists) IN
    /\ nqueries < MaxQueries
    /\ nqueries' = nqueries + 1
    /\ UNCHANGED nsets
    /\ UNCHANGED <<resolverVars, taskVars, compileVars>>
    /\ objs' = [objs EXCEPT ![i].root = res.root]
    /\ last' = [NoLast EXCEPT !.op = "update_root", !.ext = ext,
                              !.exists = exists, !.outcome = res.outcome]

----------------------------------------------------------------------------
(* The module resolver *)

Roots == 1..MaxRoots

\* a module name as given: "comp" or "comp.py"
Bare == [stem |-> "comp", ext |-> ""]
Dotted == [stem |-> "comp", ext |-> ".py"]
Names == {Bare, Dotted}

\* what is on disk at a path: nothing, a file, a directory without or with
\* an __init__.py
Kinds(name) ==
    IF name = Bare THEN {"absent", "file", "dir_noinit", "pkg"}
    ELSE {"absent", "file"}

\* the file suffixes spec_from_file_location finds a loader for
SourceSuffixes == {".py"}

\* module_from_path(path, check_name): kind is what is at path, name its
\* basename; spec_from_file_location does not look at the disk
ModuleFromPath(kind, name, check_name) ==
    LET isdir == kind \in {"dir_noinit", "pkg"}
        module_name == IF isdir THEN name ELSE [name EXCEPT !.ext = ""]
        has_spec == isdir \/ name.ext \in SourceSuffixes
        init_exists == IF isdir THEN kind = "pkg" ELSE kind = "file"
    IN IF ~has_spec
       THEN [outcome |-> "ModuleNotFoundError", module_name |-> module_name,
             init_exists |-> FALSE]
       ELSE IF check_name # None /\ check_name # module_name
       THEN [outcome |-> "ModuleNotFoundError", module_name |-> module_name,
             init_exists |-> FALSE]
       ELSE [outcome |-> "ok", module_name |-> module_name,
             init_exists |-> init_exists]

\* spec.loader.exec_module(mod): the loader reads the file only now
ExecModule(found) ==
    IF found.init_exists THEN "ok" ELSE "FileNotFoundError"

RECURSIVE LoadFromSearchPaths(_, _, _)
\* _load_from_search_paths: only module_from_path is inside the try
LoadFromSearchPaths(name, paths, disk) ==
    IF paths = <<>>
    THEN [outcome |-> "ModuleNotFoundError", root |-> 0, registered |-> {}]
    ELSE LET path == Head(paths)
             found == ModuleFromPath(disk[path][name], name, name)
         IN IF found.outcome # "ok"
            THEN LoadFromSearchPaths(name, Tail(paths), disk)
            ELSE [outcome |-> ExecModule(found), root |-> path,
                  registered |-> {[name |-> found.module_name, root |-> path]}]

NoLoaded == [op |-> "none", name |-> Bare, outcome |-> "ok", root |-> 0]

\* the sequences of distinct roots
RootLists ==
    {q \in UNION {[1..n -> Roots] : n \in 0..MaxRoots} :
        \A i, j \in DOMAIN q : i # j => q[i] # q[j]}

InitResolver ==
    /\ fs = [r \in Roots |-> [name \in Names |-> "absent"]]
    /\ search_paths = [set |-> FALSE, paths |-> <<>>]
    /\ sys_modules = {}
    /\ loaded = NoLoaded

\* the disk changes between calls
Mk(r, name, kind) ==
    /\ fs[r][name] # kind
    /\ fs' = [fs EXCEPT ![r][name] = kind]
    /\ loaded' = NoLoaded
    /\ UNCHANGED <<search_paths, sys_modules>>
    /\ UNCHANGED <<builderVars, taskVars, compileVars>>

\* compile_file: global search_paths; search_paths = self.search_paths
SetSearchPaths(paths) ==
    /\ search_paths' = [set |-> TRUE, paths |-> paths]
    /\ loaded' = NoLoaded
    /\ UNCHANGED <<fs, sys_modules>>
    /\ UNCHANGED <<builderVars, taskVars, compileVars>>

\* load_from_search_paths(module_name), on the global search_paths
Load(name) ==
    /\ IF ~search_paths.set
       THEN /\ loaded' = [NoLoaded EXCEPT !.op = "load", !.name = name,
                                          !.outcome = "TypeError"]
            /\ UNCHANGED sys_modules
       ELSE LET res == LoadFromSearchPaths(name, search_paths.paths, fs) IN
            /\ loaded' = [op |-> "load", name |-> name,
                          outcome |-> res.outcome, root |-> res.root]
            /\ sys_modules' = sys_modules \cup res.registered
    /\ UNCHANGED <<fs, search_paths>>
    /\ UNCHANGED <<builderVars, taskVars, compileVars>>

----------------------------------------------------------------------------
(* KadetTask: the lazily cached inventory *)

Scopes == {"target", "global"}

Unset == [t |-> "unset"]

\* the mappings the inventory provider may return
InvOf(target) ==
    Map("dict", One("parameters",
        Map("dict", One("kapitan",
            Map("dict", One("vars",
                Map("dict", One("target", target))))))))
Inventories == {InvOf(Int1), InvOf(Int2), Map("dict", NoItems)}

\* inventory_func returns a mapping or raises
ProviderOutcomes ==
    {[outcome |-> "ok", value |-> inv] : inv \in Inventories}
    \cup {[outcome |-> "InventoryError", value |-> None]}

\* mapping[key], a KeyError when the key is missing
GetItem(res, key) ==
    IF res.outcome # "ok" THEN res
    ELSE IF key \in DOMAIN res.value.m
    THEN [outcome |-> "ok", value |-> res.value.m[key]]
    ELSE [outcome |-> "KeyError", value |-> None]

\* a plain property: the provider is called on every access
UncachedProperty(c, scope, out) ==
    [called |-> TRUE,
     cache |-> IF out.outcome = "ok" THEN [c EXCEPT ![scope] = out.value] ELSE c,
     res |-> out]

\* functools.cached_property: the value in the instance's __dict__ when it
\* is there, else the provider is called and its return value stored
CachedProperty(c, scope, out) ==
    IF c[scope] # Unset
    THEN [called |-> FALSE, cache |-> c,
          res |-> [outcome |-> "ok", value |-> c[scope]]]
    ELSE [called |-> TRUE,
          cache |-> IF out.outcome = "ok" THEN [c EXCEPT ![scope] = out.value]
                    ELSE c,
          res |-> out]

Properties == {"inventory", "inv", "params", "target", "inventory_global"}

ScopeOf(prop) == IF prop = "inventory_global" THEN "global" ELSE "target"

\* inv -> inventory; params -> inv["parameters"];
\* target -> params["kapitan"]["vars"]["target"]
Derive(prop, res) ==
    IF prop = "params" THEN GetItem(res, "parameters")
    ELSE IF prop = "target"
    THEN GetItem(GetItem(GetItem(GetItem(res, "parameters"), "kapitan"),
                         "vars"), "target")
    ELSE res

NoAccess == [op |-> "none", called |-> FALSE, outcome |-> "ok", value |-> None]

InitTask ==
    /\ cache = [s \in Scopes |-> Unset]
    /\ calls = [s \in Scopes |-> 0]
    /\ tlast = NoAccess

\* task.<prop>, the provider answering out if it is called
Access(prop, out) ==
    LET scope == ScopeOf(prop)
        got == CachedProperty(cache, scope, out)
        res == Derive(prop, got.res)
    IN /\ got.called => calls[scope] < MaxProviderCalls
       /\ cache' = got.cache
       /\ calls' = IF got.called THEN [calls EXCEPT ![scope] = @ + 1] ELSE calls
       /\ tlast' = [op |-> prop, called |-> got.called,
                    outcome |-> res.outcome, value |-> res.value]
       /\ UNCHANGED <<builderVars, resolverVars, compileVars>>

ReadInventory(out) == Access("inventory", out)
ReadInv(out) == Access("inv", out)
ReadParams(out) == Access("params", out)
ReadTarget(out) == Access("target", out)
ReadInventoryGlobal(out) == Access("inventory_global", out)

----------------------------------------------------------------------------
(* Kadet.compile_file *)

Str(x) == [t |-> "str", v |-> x]

\* sys.meta_path as the interpreter sets it up
BaseMetaPath ==
    <<[finder |-> "BuiltinImporter", n |-> 0],
      [finder |-> "FrozenImporter", n |-> 0],
      [finder |-> "PathFinder", n |-> 0]>>

\* KadetFinder(self.search_paths), one instance per compile_file call
KadetFinder(n) == [finder |-> "KadetFinder", n |-> n]

\* list.remove(x): the first item equal to x is dropped
RECURSIVE Remove(_, _)
Remove(q, x) ==
    IF q = <<>> THEN q
    ELSE IF Head(q) = x THEN Tail(q)
    ELSE <<Head(q)>> \o Remove(Tail(q), x)

\* the component files compile_file is given: a name and what is on disk
ComponentPaths ==
    {[name |-> Dotted, kind |-> "file"], [name |-> Dotted, kind |-> "absent"],
     [name |-> Bare, kind |-> "file"], [name |-> Bare, kind |-> "pkg"]}

Outputs == {"yaml", "yml", "json", "plain", "xml"}
CompilePaths == {"out1"}
ParamSets == {NoItems, One("x", Int1), One("compile_path", Str("stale"))}

\* what the component's entry point returns: a value and the builders in it
Results ==
    {[heap |-> <<>>, value |-> Map("dict", NoItems)],
     [heap |-> <<>>, value |-> None],
     [heap |-> <<>>, value |-> Map("dict", One("a", Map("dict", One("x", Int1))))],
     [heap |-> <<>>,
      value |-> Map("dict", [k \in {"a", "b"} |->
                    IF k = "a" THEN Map("dict", NoItems) ELSE None])],
     [heap |-> <<>>,
      value |-> Map("dict", [k \in {"a", "b"} |->
                    IF k = "a" THEN List(FALSE, <<>>) ELSE Int1])],
     [heap |-> <<>>,
      value |-> Map("dict", One("a", Map("dict", One("b", Map("dict", NoItems)))))],
     [heap |-> <<NewObj(NoItems)>>, value |-> Ref(1)],
     [heap |-> <<NewObj(One("a", Map("Dict", NoItems)))>>, value |-> Ref(1)],
     [heap |-> <<NewObj(One("b", Int2))>>,
      value |-> Map("dict", One("a", Ref(1)))]}

\* what the module defines under the name Task
TaskKinds == {"none", "KadetTask", "KadetTaskNoRun", "other", "nonclass"}

\* what executing the component module does: it raises, or defines Task
\* and a main of some number of parameters
Modules ==
    {[body |-> "raises", task |-> "none", arity |-> 0]}
    \cup {[body |-> "ok", task |-> tk, arity |-> n] :
            tk \in TaskKinds \ {"KadetTask", "KadetTaskNoRun"},
            n \in 0..MaxArity}
    \cup {[body |-> "ok", task |-> tk, arity |-> 0] :
            tk \in {"KadetTask", "KadetTaskNoRun"}}

IsEmptyContainer(v) ==
    \/ v.t = "list" /\ v.items = <<>>
    \/ v.t = "dict" /\ DOMAIN v.m = {}

RECURSIVE PruneEmpty(_)
\* kapitan.utils.prune_empty: nulls and empty containers are stripped,
\* recursively
PruneEmpty(v) ==
    IF v.t = "dict"
    THEN LET kept == {k \in DOMAIN v.m :
                        LET p == PruneEmpty(v.m[k]) IN
                        ~(p.t = "none" \/ IsEmptyContainer(p))}
         IN Map(v.kind, [k \in kept |-> PruneEmpty(v.m[k])])
    ELSE IF v.t = "list"
    THEN LET p == [n \in DOMAIN v.items |-> PruneEmpty(v.items[n])]
         IN List(v.sub, SelectSeq(p, LAMBDA x : ~(x.t = "none" \/ IsEmptyContainer(x))))
    ELSE v

\* an orchestration that forgets to prune
FinalOutputNoPrune(result, prune) == ToDict(result.heap, result.value).r

\* output_obj = _to_dict(output_obj); if prune: output_obj = prune_empty(...)
FinalOutput(result, prune) ==
    LET plain == ToDict(result.heap, result.value).r IN
    IF prune THEN PruneEmpty(plain) ELSE plain

\* not output_obj
Falsy(v) ==
    \/ v.t = "none"
    \/ IsEmptyContainer(v)
    \/ v.t = "int" /\ v.v = 0

\* the file each item is written to, or the ValueError for an unknown output
FileFor(key, output) ==
    IF output = "json" \/ output \in {"yml", "yaml"}
    THEN [outcome |-> "ok", file |-> [key |-> key, ext |-> output]]
    ELSE IF output = "plain"
    THEN [outcome |-> "ok", file |-> [key |-> key, ext |-> ""]]
    ELSE [outcome |-> "ValueError", file |-> [key |-> key, ext |-> ""]]

\* an entry point dispatch that passes the parameters to any main that
\* takes arguments
EntryPointLenient(module, params) ==
    IF module.task \in {"KadetTask", "KadetTaskNoRun"}
    THEN [outcome |-> IF module.task = "KadetTask" THEN "ok"
                      ELSE "NotImplementedError",
          entry |-> "run", args |-> <<params>>]
    ELSE IF module.task = "nonclass"
    THEN [outcome |-> "TypeError", entry |-> "none", args |-> <<>>]
    ELSE IF module.arity = 0
    THEN [outcome |-> "ok", entry |-> "main", args |-> <<>>]
    ELSE [outcome |-> "ok", entry |-> "main", args |-> <<params>>]

\* lines 144-157: Task.run(input_params), main(input_params) or main()
EntryPoint(module, params) ==
    IF module.task \in {"KadetTask", "KadetTaskNoRun"}
    THEN [outcome |-> IF module.task = "KadetTask" THEN "ok"
                      ELSE "NotImplementedError",
          entry |-> "run", args |-> <<params>>]
    ELSE IF module.task = "nonclass"
    THEN [outcome |-> "TypeError", entry |-> "none", args |-> <<>>]
    ELSE IF module.arity = 1
    THEN [outcome |-> "ok", entry |-> "main", args |-> <<params>>]
    ELSE IF module.arity = 0
    THEN [outcome |-> "ok", entry |-> "main", args |-> <<>>]
    ELSE [outcome |-> "ValueError", entry |-> "none", args |-> <<>>]

\* lines 159-206: normalize, prune, return None when empty, else write
WriteOutput(result, output, prune) ==
    LET out == FinalOutput(result, prune) IN
    IF Falsy(out) THEN [outcome |-> "no_output", files |-> {}]
    ELSE IF \E k \in DOMAIN out.m : FileFor(k, output).outcome # "ok"
    THEN [outcome |-> "ValueError", files |-> {}]
    ELSE [outcome |-> "written",
          files |-> {FileFor(k, output).file : k \in DOMAIN out.m}]

NoCur == [path |-> [name |-> Dotted, kind |-> "file"], output |-> "yaml",
          prune |-> FALSE, compile_path |-> "out1", params |-> NoItems,
          given |-> NoItems, hook |-> KadetFinder(0),
          module |-> [body |-> "raises", task |-> "none", arity |-> 0],
          result |-> [heap |-> <<>>, value |-> None]]
NoRet == [outcome |-> "none", entry |-> "none", args |-> <<>>]
NotSet == [set |-> FALSE, params |-> NoItems]

\* input_params["compile_path"] = compile_path
WithCompilePath(params, compile_path) ==
    [k \in DOMAIN params \cup {"compile_path"} |->
        IF k = "compile_path" THEN Str(compile_path) ELSE params[k]]

\* self.search_paths of the Kadet instance
KadetSearchPaths == [n \in 1..MaxRoots |-> n]

InitCompile ==
    /\ input_params = NoItems
    /\ pending = NotSet
    /\ meta_path = BaseMetaPath
    /\ pc = "idle"
    /\ cur = NoCur
    /\ ret = NoRet
    /\ written = {}
    /\ ncalls = 0

\* set_input_params
SetInputParams(params) ==
    /\ pc = "idle"
    /\ input_params' = params
    /\ pending' = [set |-> TRUE, params |-> params]
    /\ UNCHANGED <<meta_path, pc, cur, ret, written, ncalls,
                   search_paths, sys_modules>>
    /\ UNCHANGED <<builderVars, taskVars, fs, loaded>>

\* a compile_file that leaves the stored parameters in place
KeepInputParams(params) == params

\* self.input_params after compile_file has taken the parameters
ResetInputParams(params) == NoItems

\* compile_file, lines 108-136: the parameters are taken and reset, the
\* globals rebound, the module found and registered, the hook installed
CompileStart(path, compile_path, output, prune) ==
    /\ pc = "idle"
    /\ ncalls < MaxCompiles
    /\ ncalls' = ncalls + 1
    /\ input_params' = ResetInputParams(input_params)
    /\ pending' = NotSet
    /\ search_paths' = [set |-> TRUE, paths |-> KadetSearchPaths]
    /\ UNCHANGED <<builderVars, taskVars, fs, loaded>>
    /\ written' = {}
    /\ LET found == ModuleFromPath(path.kind, path.name, None)
           hook == KadetFinder(ncalls + 1)
           now == [NoCur EXCEPT !.path = path, !.output = output,
                       !.prune = prune, !.compile_path = compile_path,
                       !.params = WithCompilePath(input_params, compile_path),
                       !.given = pending.params,
                       !.hook = hook]
       IN /\ cur' = now
          /\ IF found.outcome # "ok"
             THEN /\ ret' = [NoRet EXCEPT !.outcome = found.outcome]
                  /\ UNCHANGED <<meta_path, pc, sys_modules>>
             ELSE /\ ret' = NoRet
                  /\ sys_modules' = sys_modules
                        \cup {[name |-> found.module_name, root |-> 0]}
                  /\ meta_path' = Append(meta_path, hook)
                  /\ pc' = "exec"

\* the hook removed after a successful execution only
AfterExecNoFinally(finders, hook, outcome) ==
    IF outcome = "ok" THEN Remove(finders, hook) ELSE finders

\* sys.meta_path once exec_module has returned or raised: the finally
\* clause removes the hook
AfterExec(finders, hook, outcome) == Remove(finders, hook)

\* compile_file, lines 137-140: the module is executed with the hook in place
ExecStep(module) ==
    /\ pc = "exec"
    /\ LET found == ModuleFromPath(cur.path.kind, cur.path.name, None)
           outcome == IF ExecModule(found) # "ok" THEN ExecModule(found)
                      ELSE IF module.body = "raises" THEN "ExecError"
                      ELSE "ok"
       IN /\ meta_path' = AfterExec(meta_path, cur.hook, outcome)
          /\ IF outcome = "ok"
             THEN /\ cur' = [cur EXCEPT !.module = module]
                  /\ pc' = "entry"
                  /\ UNCHANGED ret
             ELSE /\ ret' = [NoRet EXCEPT !.outcome = outcome]
                  /\ pc' = "idle"
                  /\ UNCHANGED cur
    /\ UNCHANGED <<input_params, pending, written, ncalls,
                   search_paths, sys_modules>>
    /\ UNCHANGED <<builderVars, taskVars, fs, loaded>>

\* compile_file, lines 142-206: the entry point is called and what it
\* returns is normalized, pruned and written
RunEntry(result) ==
    /\ pc = "entry"
    /\ pc' = "idle"
    /\ LET called == EntryPoint(cur.module, cur.params) IN
       IF called.outcome # "ok"
       THEN /\ ret' = called
            /\ UNCHANGED <<written, cur>>
       ELSE LET wrote == WriteOutput(result, cur.output, cur.prune)
            IN /\ ret' = [called EXCEPT !.outcome = wrote.outcome]
               /\ written' = wrote.files
               /\ cur' = [cur EXCEPT !.result = result]
    /\ UNCHANGED <<input_params, pending, meta_path, ncalls,
                   search_paths, sys_modules>>
    /\ UNCHANGED <<builderVars, taskVars, fs, loaded>>

----------------------------------------------------------------------------
(* Specifications: one machine each, the other machines' state at rest *)

Init == InitBuilder /\ InitResolver /\ InitTask /\ InitCompile

NextBuilder ==
    \/ \E cls \in Classes, kwargs \in SUBSET {"name"} : Construct(cls, kwargs)
    \/ \E cls \in Classes, value \in DictArgs : FromDict(cls, value)
    \/ \E i \in 1..Len(objs), k \in SetKeys :
            \E v \in Vals(i) : SetRoot(i, k, v)
    \/ \E i \in 1..Len(objs) : ToDictCall(i)
    \/ \E i \in 1..Len(objs), ext \in Exts, exists \in BOOLEAN :
            UpdateRoot(i, ext, exists)

SpecBuilder == Init /\ [][NextBuilder]_vars

NextResolver ==
    \/ \E r \in Roots, name \in Names : \E kind \in Kinds(name) :
            Mk(r, name, kind)
    \/ \E paths \in RootLists : SetSearchPaths(paths)
    \/ \E name \in Names : Load(name)

SpecResolver == Init /\ [][NextResolver]_vars

NextTask ==
    \/ \E out \in ProviderOutcomes : ReadInventory(out)
    \/ \E out \in ProviderOutcomes : ReadInv(out)
    \/ \E out \in ProviderOutcomes : ReadParams(out)
    \/ \E out \in ProviderOutcomes : ReadTarget(out)
    \/ \E out \in ProviderOutcomes : ReadInventoryGlobal(out)

SpecTask == Init /\ [][NextTask]_vars

Next ==
    \/ \E params \in ParamSets : SetInputParams(params)
    \/ \E path \in ComponentPaths, compile_path \in CompilePaths,
          output \in Outputs, prune \in BOOLEAN :
            CompileStart(path, compile_path, output, prune)
    \/ \E module \in Modules : ExecStep(module)
    \/ \E result \in Results : RunEntry(result)

Spec == Init /\ [][Next]_vars

----------------------------------------------------------------------------
(* What the claims are stated with *)

RECURSIVE NormalForm(_, _)
\* the plain tree a value stands for: builders replaced by their roots,
\* every container a plain dict or a plain list
NormalForm(h, v) ==
    IF v.t = "obj"
    THEN Map("dict", [k \in DOMAIN h[v.id].root |->
                        NormalForm(h, h[v.id].root[k])])
    ELSE IF v.t = "list"
    THEN List(FALSE, [n \in DOMAIN v.items |-> NormalForm(h, v.items[n])])
    ELSE IF v.t = "dict"
    THEN Map("dict", [k \in DOMAIN v.m |-> NormalForm(h, v.m[k])])
    ELSE v

\* no builder and no container subtype anywhere in a value
IsPlain(v) == ~HasObj(v) /\ ~HasSubtype(v)

RECURSIVE Erase(_)
\* a value up to Python's ==, which does not tell a dict or list from its
\* subclasses
Erase(v) ==
    IF v.t = "list"
    THEN List(FALSE, [n \in DOMAIN v.items |-> Erase(v.items[n])])
    ELSE IF v.t = "dict"
    THEN Map("dict", [k \in DOMAIN v.m |-> Erase(v.m[k])])
    ELSE v

PyEq(a, b) == Erase(a) = Erase(b)

ToDictStep == last'.op = "to_dict" /\ nqueries' = nqueries + 1
UpdateRootStep == last'.op = "update_root" /\ nqueries' = nqueries + 1

\* C1, as claimed: after _to_dict(b), b.root holds the same keys and the
\* same values, the nested BaseObj instances included, as before the call.
C1_RootUntouched ==
    [][ToDictStep =>
        LET b == last'.id IN
        /\ DOMAIN objs'[b].root = DOMAIN objs[b].root
        /\ \A k \in DOMAIN objs[b].root :
            PyEq(objs'[b].root[k], objs[b].root[k])]_vars

\* C1, amended: _to_dict(b) keeps the keys of b.root and rewrites its values
\* in place: each value is replaced by its normalized form, so a value that
\* is already plain stays equal and a nested builder is replaced by a plain
\* dict; the builders nested in b are rewritten the same way, no other
\* builder changes, and the result is the normalized tree of b.
C1_RootNormalizedInPlace ==
    [][ToDictStep =>
        /\ Len(objs') = Len(objs)
        /\ \A j \in 1..Len(objs) :
            /\ DOMAIN objs'[j].root = DOMAIN objs[j].root
            /\ \A k \in DOMAIN objs[j].root :
                /\ objs'[j].root[k] \in
                    {objs[j].root[k], NormalForm(objs, objs[j].root[k])}
                /\ IsPlain(objs[j].root[k]) =>
                    objs'[j].root[k] = objs[j].root[k]
                /\ j = last'.id =>
                    objs'[j].root[k] = NormalForm(objs, objs[j].root[k])
        /\ last'.res = NormalForm(objs, Ref(last'.id))]_vars

\* C1's case: to_dict has run on a builder that held another builder
C1_Witness ==
    /\ last.op = "to_dict"
    /\ last.hadObj
    /\ \A k \in DOMAIN objs[last.id].root : ~HasObj(objs[last.id].root[k])

\* C2: the tree _to_dict returns for a builder holds no BaseObj at any depth
\* and every container in it is a plain dict or a plain list.
C2_ResultIsPlain == last.op = "to_dict" => IsPlain(last.res)

\* C2's case: the builder held a builder and a list or dict subclass
C2_Witness ==
    /\ last.op = "to_dict"
    /\ last.hadObj
    /\ last.hadSubtype
    /\ last.res.m # NoItems

\* C3, as claimed: from_dict runs none of the subclass's hooks, never raises
\* CompileError, and returns an instance whose root equals the value.
C3_HooksBypassed ==
    last.op = "from_dict" =>
        /\ last.outcome = "ok"
        /\ last.cls # "BaseObj" => last.hooks = <<>>
        /\ PyEq(Map("Dict", objs[last.id].root), last.arg)

\* C3, amended: from_dict first constructs cls() with no kwargs, so the
\* subclass's new() and body() run; it raises CompileError exactly when
\* new() need()s a key, and otherwise returns an instance whose root equals
\* the given value, whatever body() had put there.
C3_HooksRunWithoutKwargs ==
    last.op = "from_dict" =>
        /\ last.outcome = "CompileError" <=> Needs(last.cls) # {}
        /\ last.outcome = "CompileError" =>
            /\ last.hooks = <<"new">>
            /\ Len(objs) < last.id
        /\ last.outcome # "CompileError" =>
            /\ last.outcome = "ok"
            /\ last.hooks = <<"new", "body">>
            /\ PyEq(Map("Dict", objs[last.id].root), last.arg)

\* C3's case: from_dict on a subclass whose new() need()s a key
C3_Witness ==
    /\ last.op = "from_dict"
    /\ last.cls = "Named"
    /\ last.outcome = "CompileError"

\* C4: update_root on a path whose extension is none of .yaml, .yml, .json
\* fails with CompileError, whether or not a file is there, and leaves the
\* root unchanged.
C4_UnknownExtensionIsCompileError ==
    [][UpdateRootStep /\ last'.ext \notin Recognized =>
        /\ last'.outcome = "CompileError"
        /\ objs' = objs]_vars

\* the first root of the list whose candidate is a loadable package, or 0
RECURSIVE FirstLoadable(_, _)
FirstLoadable(name, paths) ==
    IF paths = <<>> THEN 0
    ELSE IF fs[Head(paths)][name] = "pkg" THEN Head(paths)
    ELSE FirstLoadable(name, Tail(paths))

\* C5: the module is loaded from the first root whose candidate resolves
\* and can be loaded, the other roots are skipped, and ModuleNotFoundError
\* is raised exactly when no root yields a match.
C5_FirstLoadableRootWins ==
    loaded.op = "load" /\ search_paths.set =>
        LET r == FirstLoadable(loaded.name, search_paths.paths) IN
        IF r # 0 THEN loaded.outcome = "ok" /\ loaded.root = r
        ELSE loaded.outcome = "ModuleNotFoundError"

\* compile_file has got as far as the entry point and has ended
EntryDone == pc = "idle" /\ cur.module.body = "ok"

NoKadetTask == cur.module.task \notin {"KadetTask", "KadetTaskNoRun"}

\* C6, as claimed: with no Task derived from KadetTask and a main of neither
\* 0 nor 1 parameters, compile_file fails with a ConfigurationError, main is
\* not called and no file is written.
C6_ConfigurationError ==
    EntryDone /\ NoKadetTask /\ cur.module.arity \notin {0, 1} =>
        /\ ret.outcome = "ConfigurationError"
        /\ ret.entry = "none"
        /\ written = {}

\* C6, amended: in that case compile_file fails with ValueError (with the
\* TypeError of issubclass when the module's Task is not a class), main is
\* not called and no file is written.
C6_ValueError ==
    EntryDone /\ NoKadetTask /\ cur.module.arity \notin {0, 1} =>
        /\ ret.outcome =
            IF cur.module.task = "nonclass" THEN "TypeError" ELSE "ValueError"
        /\ ret.entry = "none"
        /\ written = {}

\* C6's case: a module without Task whose main takes two parameters
C6_Witness ==
    /\ EntryDone
    /\ cur.module.task = "none"
    /\ cur.module.arity = 2
    /\ ret.outcome = "ValueError"

\* a null or an empty container
IsVoid(v) == v.t = "none" \/ IsEmptyContainer(v)

\* the normalized result is {}, or pruning is asked for and every value of
\* the normalized result is a null or an empty container
EmptyResult(result, prune) ==
    LET n == NormalForm(result.heap, result.value) IN
    /\ n.t = "dict"
    /\ \/ DOMAIN n.m = {}
       \/ prune /\ \A k \in DOMAIN n.m : IsVoid(n.m[k])

\* C7: when the entry point's result is empty, judged after pruning when
\* prune is set, compile_file returns None without raising and writes no
\* file, whatever the output option.
C7_EmptyResultWritesNothing ==
    EntryDone /\ ret.entry # "none" /\ ret.outcome # "NotImplementedError"
              /\ EmptyResult(cur.result, cur.prune) =>
        /\ ret.outcome = "no_output"
        /\ written = {}

\* C7's case: prune is set, the output option is not a known one, and the
\* result holds only nulls and empty containers
C7_Witness ==
    /\ EntryDone
    /\ ret.entry = "main"
    /\ cur.prune
    /\ cur.output = "xml"
    /\ cur.result.value.t = "dict"
    /\ DOMAIN cur.result.value.m = {"a", "b"}
    /\ EmptyResult(cur.result, cur.prune)
    /\ ret.outcome = "no_output"

\* C8, as claimed: the inventory provider is called at most once for each
\* scope of a KadetTask.
C8_AtMostOneCall == \A s \in Scopes : calls[s] <= 1

\* C8, amended: once a call of the provider has returned for a scope, the
\* provider is not called again for it and every later access returns that
\* result; a call that raises caches nothing, and the next access calls the
\* provider again.
C8_NoCallOnceCached ==
    [][\A s \in Scopes :
        /\ cache[s] # Unset =>
            /\ calls'[s] = calls[s]
            /\ cache'[s] = cache[s]
            /\ tlast'.op \in {"inventory", "inv", "inventory_global"}
                    /\ ScopeOf(tlast'.op) = s =>
                /\ tlast'.outcome = "ok"
                /\ tlast'.value = cache[s]
        /\ cache[s] = Unset /\ cache'[s] # Unset => calls'[s] = calls[s] + 1
        /\ cache[s] = Unset /\ calls'[s] # calls[s] /\ cache'[s] = Unset =>
            tlast'.outcome = "InventoryError"]_vars

\* C8's case: both inventories are cached, the provider had failed before,
\* and target has just been read from the cache
C8_Witness ==
    /\ \A s \in Scopes : cache[s] # Unset
    /\ calls["target"] >= 2
    /\ tlast.op = "target"
    /\ ~tlast.called
    /\ tlast.outcome = "ok"

\* C9: the KadetFinder of a compile_file call is in sys.meta_path exactly
\* while that call executes the component module; before and after, on
\* success and on failure, sys.meta_path is what it was.
C9_HookOnlyDuringExec ==
    /\ pc = "exec" => meta_path = Append(BaseMetaPath, cur.hook)
    /\ pc # "exec" => meta_path = BaseMetaPath
    /\ cur.hook = KadetFinder(ncalls)

\* C9's case: the second component's execution has raised
C9_Witness ==
    /\ pc = "idle"
    /\ ncalls = 2
    /\ ret.outcome \in {"ExecError", "FileNotFoundError"}

\* C10: compile_file resets the stored parameters before component code
\* runs, they are empty after every call until set again, and the entry
\* point receives the parameters set since the previous call plus
\* compile_path.
C10_ParamsIsolated ==
    /\ ~pending.set => input_params = NoItems
    /\ pc # "idle" => input_params = NoItems
    /\ pending.set => input_params = pending.params
    /\ ret.entry # "none" /\ ret.args # <<>> =>
        /\ ret.args = <<cur.params>>
        /\ DOMAIN cur.params = DOMAIN cur.given \cup {"compile_path"}
        /\ cur.params["compile_path"] = Str(cur.compile_path)
        /\ \A k \in DOMAIN cur.given \ {"compile_path"} :
            cur.params[k] = cur.given[k]

\* C10's case: a second compile_file call with nothing set since the first
\* has passed its parameters to the entry point
C10_Witness ==
    /\ ncalls = 2
    /\ pc = "idle"
    /\ ret.entry \in {"main", "run"}
    /\ ret.args # <<>>
    /\ cur.given = NoItems
    /\ ~pending.set

====
